---------------------------- MODULE Spec2Model ----------------------------
(***************************************************************************)
(* Model of calenderizer's schedule-to-events compiler                     *)
(* (src/src/calenderizer/ics_generator.py): create_calendar, create_events *)
(* and format_task, together with the parts of datetime / timedelta /      *)
(* strptime they rely on.                                                  *)
(*                                                                         *)
(* Representation of Python values:                                        *)
(*   dict      a function whose DOMAIN is the set of keys present          *)
(*   list      a sequence                                                  *)
(*   str       phases, titles, dates and zone names are TLA+ strings;      *)
(*             start-time strings are sequences of one-character strings   *)
(*             so that strptime can be modelled character by character     *)
(*   number    hours are rationals [num |-> n, den |-> d], d > 0           *)
(*   timedelta [days, seconds, microseconds], normalised as in CPython     *)
(*   datetime  [ordinal, second, microsecond, tz]                          *)
(***************************************************************************)
EXTENDS Integers, Sequences, FiniteSets, TLC

VARIABLES
    args,           \* args[c]: the arguments of call c of create_calendar
    pc,             \* pc[c]: where call c is
    cal,            \* create_calendar's local cal (the Calendar's components)
    idx,            \* position of create_calendar's for loop in schedule
    events,         \* create_events' local events
    current_start,  \* create_events' local current_start
    i,              \* create_events' loop counter (1-based, enumerate(.., 1))
    result,         \* what call c returned (NoResult until it returns)
    exc,            \* the exception that left the call ("" when none)
    clock,          \* the wall clock read by datetime.datetime.now(tz)
    main,           \* main's frame: where it is, its parsed arguments, its schedule
    files           \* the file system: the input file and the output file

vars == <<args, pc, cal, idx, events, current_start, i, result, exc, clock,
          main, files>>

---------------------------------------------------------------------------
(* Bounds *)

\* longest schedule (number of entries) given to create_calendar
MaxEntries == 2
\* longest task list of the entries whose task hours vary
MaxTasks == 3
\* number of times the wall clock ticks during a run
MaxClock == 1

---------------------------------------------------------------------------
(* Python values *)

Calls == {1, 2}

\* Python's None, where a start-time string (a sequence of characters) may stand
None == <<"None">>

Q(n, d) == [num |-> n, den |-> d]

\* bool(x) of a start-time value: None and "" are falsy
Truthy(s) == s # None /\ s # <<>>

\* dict.get(key) with the default None
Get(d, key) == IF key \in DOMAIN d THEN d[key] ELSE None

---------------------------------------------------------------------------
(* datetime.timedelta and datetime.datetime *)

MicrosPerSecond == 1000000
SecondsPerDay == 86400
SecondsPerHour == 3600

\* round(a / b) to the nearest integer, ties to even, for a >= 0, b > 0
RoundHalfEven(a, b) ==
    LET f == a \div b
        r == a % b
    IN  IF 2 * r < b THEN f
        ELSE IF 2 * r > b THEN f + 1
        ELSE IF f % 2 = 0 THEN f ELSE f + 1

\* timedelta(hours=h): h hours in whole microseconds, normalised to
\* 0 <= seconds < 86400 and 0 <= microseconds < 1000000 (days may be negative)
timedelta_hours(h) ==
    LET whole == (h.num * SecondsPerHour) \div h.den
        rest  == (h.num * SecondsPerHour) % h.den
        us    == RoundHalfEven(rest * MicrosPerSecond, h.den)
        secs  == whole + (us \div MicrosPerSecond)
    IN  [days         |-> secs \div SecondsPerDay,
         seconds      |-> secs % SecondsPerDay,
         microseconds |-> us % MicrosPerSecond]

\* datetime + timedelta: wall-clock arithmetic, the tzinfo is kept
dt_add(dt, td) ==
    LET us   == dt.microsecond + td.microseconds
        secs == dt.second + td.seconds + (us \div MicrosPerSecond)
    IN  [ordinal     |-> dt.ordinal + td.days + (secs \div SecondsPerDay),
         second      |-> secs % SecondsPerDay,
         microsecond |-> us % MicrosPerSecond,
         tz          |-> dt.tz]

\* datetime - datetime of the same zone, a normalised timedelta
dt_sub(a, b) ==
    LET us   == a.microsecond - b.microsecond
        secs == (a.second - b.second) + (us \div MicrosPerSecond)
    IN  [days         |-> (a.ordinal - b.ordinal) + (secs \div SecondsPerDay),
         seconds      |-> secs % SecondsPerDay,
         microseconds |-> us % MicrosPerSecond]

\* a < b for datetimes of the same zone
dt_lt(a, b) ==
    \/ a.ordinal < b.ordinal
    \/ a.ordinal = b.ordinal /\ a.second < b.second
    \/ a.ordinal = b.ordinal /\ a.second = b.second /\ a.microsecond < b.microsecond


---------------------------------------------------------------------------
(* pytz.timezone, datetime.strptime, tz.localize *)

\* zone names the timezone database resolves (pytz.timezone raises
\* UnknownTimeZoneError for any other)
KnownZones == {"UTC", "America/New_York"}

\* date strings strptime's "%Y-%m-%d" accepts, with date.toordinal() of each
DateOrdinal == [d \in {"2024-04-01", "2024-04-02"} |->
                  IF d = "2024-04-01" THEN 738977 ELSE 738978]

Digits == {"0", "1", "2", "3", "4", "5", "6", "7", "8", "9"}

DigitVal(ch) ==
    CASE ch = "0" -> 0 [] ch = "1" -> 1 [] ch = "2" -> 2 [] ch = "3" -> 3
      [] ch = "4" -> 4 [] ch = "5" -> 5 [] ch = "6" -> 6 [] ch = "7" -> 7
      [] ch = "8" -> 8 [] ch = "9" -> 9

\* the number written by a sequence of one or two digits
NumVal(ds) == IF Len(ds) = 1 THEN DigitVal(ds[1])
              ELSE 10 * DigitVal(ds[1]) + DigitVal(ds[2])

\* where the ":" of a start-time string is (0 when there is none)
ColonAt(s) == IF \E k \in 1..Len(s) : s[k] = ":"
              THEN CHOOSE k \in 1..Len(s) : s[k] = ":" /\ \A j \in 1..(k-1) : s[j] # ":"
              ELSE 0

\* strptime's "%H:%M" on a start-time string: one or two digits (0..23), ":",
\* one or two digits (0..59) and nothing else
TimeOk(s) ==
    LET k == ColonAt(s)
        hh == SubSeq(s, 1, k - 1)
        mm == SubSeq(s, k + 1, Len(s))
    IN  /\ k # 0
        /\ Len(hh) \in {1, 2} /\ Len(mm) \in {1, 2}
        /\ \A j \in 1..Len(hh) : hh[j] \in Digits
        /\ \A j \in 1..Len(mm) : mm[j] \in Digits
        /\ NumVal(hh) <= 23 /\ NumVal(mm) <= 59

\* the second of the day a valid start-time string names
TimeSecond(s) ==
    LET k == ColonAt(s)
    IN  NumVal(SubSeq(s, 1, k - 1)) * SecondsPerHour
          + NumVal(SubSeq(s, k + 1, Len(s))) * 60

\* whether strptime(f"{date} {time}", "%Y-%m-%d %H:%M") succeeds
StrptimeOk(date, time) == date \in DOMAIN DateOrdinal /\ TimeOk(time)

\* tz.localize(strptime(f"{date} {time}", "%Y-%m-%d %H:%M"))
Localize(date, time, tzname) ==
    [ordinal |-> DateOrdinal[date], second |-> TimeSecond(time),
     microsecond |-> 0, tz |-> tzname]

---------------------------------------------------------------------------
(* format_task and the parts of create_events *)

FIRST == "first"     \* the first-task marker
LAST == "last"       \* the last-task marker
MIDDLE == "middle"   \* the middle-task marker

\* format_task testing for the last task before the first
format_task_LastFirst(task, task_number, total_tasks) ==
    LET emoji == IF task_number = total_tasks THEN LAST
                 ELSE IF task_number = 1 THEN FIRST
                 ELSE MIDDLE
    IN  <<emoji, " ", task.hours, " hrs: ", task.title>>

\* format_task(task, task_number, total_tasks):
\*   f"{emoji} {task['hours']} hrs: {task['title']}"
format_task(task, task_number, total_tasks) ==
    LET emoji == IF task_number = 1 THEN FIRST
                 ELSE IF task_number = total_tasks THEN LAST
                 ELSE MIDDLE
    IN  <<emoji, " ", task.hours, " hrs: ", task.title>>

FallbackStart == <<"0", "9", ":", "0", "0">>

\* the default start time taking precedence over the entry's own
StartTimeStr_DefaultFirst(entry, default_start_time) ==
    LET own == Get(entry, "start_time")
        s   == IF Truthy(default_start_time) THEN default_start_time ELSE own
    IN  IF ~Truthy(s) THEN FallbackStart ELSE s

\* start_time_str = entry.get('start_time') or default_start_time
\* if not start_time_str: start_time_str = "09:00"
StartTimeStr(entry, default_start_time) ==
    LET own == Get(entry, "start_time")
        s   == IF Truthy(own) THEN own ELSE default_start_time
    IN  IF ~Truthy(s) THEN FallbackStart ELSE s

\* the summary of every task built from the first task's title
Summary_FirstTask(entry, task) == <<entry.phase, ": ", entry.tasks[1].title>>

\* summary = f"{entry['phase']}: {task['title']}"
Summary(entry, task) == <<entry.phase, ": ", task.title>>

\* the end computed from the whole hours only
EndDt_WholeHours(start, task) ==
    dt_add(start, timedelta_hours(Q(task.hours.num \div task.hours.den, 1)))

\* the end of the event taking in the buffer after the task
EndDt_WithBuffer(start, task) ==
    dt_add(dt_add(start, timedelta_hours(task.hours)), timedelta_hours(Q(1, 2)))

\* end_dt = current_start + datetime.timedelta(hours=task['hours'])
EndDt(start, task) == dt_add(start, timedelta_hours(task.hours))

\* the next task starting where the last one ended, without the buffer
NextStart_NoBuffer(end_dt, buffer_hours) == end_dt

\* current_start = end_dt + datetime.timedelta(hours=buffer_hours)
NextStart(end_dt, buffer_hours) == dt_add(end_dt, timedelta_hours(buffer_hours))

\* the Event with its creation time written into the description
MakeEvent_StampInDescription(entry, n, start, tzname, now) ==
    LET task == entry.tasks[n]
    IN  [summary     |-> Summary(entry, task),
         description |-> format_task(task, n, Len(entry.tasks)) \o <<" at ", now>>,
         dtstart     |-> start,
         dtend       |-> EndDt(start, task),
         dtstamp     |-> [instant |-> now, tz |-> tzname]]

\* the Event built for the task at 1-based position n of entry
MakeEvent(entry, n, start, tzname, now) ==
    LET task == entry.tasks[n]
    IN  [summary     |-> Summary(entry, task),
         description |-> format_task(task, n, Len(entry.tasks)),
         dtstart     |-> start,
         dtend       |-> EndDt(start, task),
         dtstamp     |-> [instant |-> now, tz |-> tzname]]

\* the exception lines 135-144 raise for an entry ("" when none)
BeginError(entry, timezone_str, default_start_time) ==
    IF timezone_str \notin KnownZones THEN "UnknownTimeZoneError"
    ELSE IF "date" \notin DOMAIN entry THEN "KeyError"
    ELSE IF ~StrptimeOk(entry.date, StartTimeStr(entry, default_start_time))
         THEN "ValueError"
    ELSE ""

\* the exception one pass of the loop body (lines 151-157) raises ("" when none)
TaskError(entry, task) ==
    IF "phase" \notin DOMAIN entry THEN "KeyError"
    ELSE IF "title" \notin DOMAIN task THEN "KeyError"
    ELSE IF "hours" \notin DOMAIN task THEN "KeyError"
    ELSE ""

---------------------------------------------------------------------------
(* The calls *)

\* nothing returned (yet): a returned calendar has returned = TRUE
NoResult == [returned |-> FALSE, components |-> <<>>]
NoStart == [ordinal |-> 0, second |-> 0, microsecond |-> 0, tz |-> ""]

\* the entry call c's for loop (line 181) is at
Entry(c) == args[c].schedule[idx[c]]

\* the exception swallowed and what was built so far returned
Raise_ReturnPartial(c, e) ==
    /\ pc' = [pc EXCEPT ![c] = "returned"]
    /\ result' = [result EXCEPT ![c] =
                     [returned |-> TRUE, components |-> cal[c] \o events[c]]]
    /\ UNCHANGED <<args, cal, idx, events, current_start, i, exc, clock, main, files>>

\* an exception leaves create_events and create_calendar: no value is returned
Raise(c, e) ==
    /\ pc' = [pc EXCEPT ![c] = "raised"]
    /\ exc' = [exc EXCEPT ![c] = e]
    /\ UNCHANGED <<args, cal, idx, events, current_start, i, result, clock, main, files>>

\* lines 177-179: cal = Calendar(), and the for loop starts
create_calendar_begin(c) ==
    /\ pc[c] = "called"
    /\ cal' = [cal EXCEPT ![c] = <<>>]
    /\ idx' = [idx EXCEPT ![c] = 1]
    /\ pc' = [pc EXCEPT ![c] = "for_entry"]
    /\ UNCHANGED <<args, events, current_start, i, result, exc, clock, main, files>>

\* create_events going on from where the entry before left current_start
create_events_begin_CarryCursor(c) ==
    /\ pc[c] = "for_entry"
    /\ idx[c] <= Len(args[c].schedule)
    /\ LET entry == Entry(c)
           e == BeginError(entry, args[c].timezone_str, args[c].default_start_time)
       IN  IF e # "" THEN Raise(c, e)
           ELSE /\ events' = [events EXCEPT ![c] = <<>>]
                /\ current_start' = [current_start EXCEPT ![c] =
                       IF idx[c] > 1 THEN @
                       ELSE Localize(entry.date,
                                StartTimeStr(entry, args[c].default_start_time),
                                args[c].timezone_str)]
                /\ i' = [i EXCEPT ![c] = 1]
                /\ pc' = [pc EXCEPT ![c] = "for_task"]
                /\ UNCHANGED <<args, cal, idx, result, exc, clock, main, files>>

\* create_events storing the start time it resolved into the entry
create_events_begin_WritesStartTime(c) ==
    /\ pc[c] = "for_entry"
    /\ idx[c] <= Len(args[c].schedule)
    /\ LET entry == Entry(c)
           e == BeginError(entry, args[c].timezone_str, args[c].default_start_time)
           st == StartTimeStr(entry, args[c].default_start_time)
       IN  IF e # "" THEN Raise(c, e)
           ELSE /\ events' = [events EXCEPT ![c] = <<>>]
                /\ current_start' = [current_start EXCEPT ![c] =
                       Localize(entry.date, st, args[c].timezone_str)]
                /\ i' = [i EXCEPT ![c] = 1]
                /\ pc' = [pc EXCEPT ![c] = "for_task"]
                /\ args' = [args EXCEPT ![c].schedule[idx[c]] =
                       [k \in DOMAIN entry \cup {"start_time"} |->
                           IF k = "start_time" THEN st ELSE entry[k]]]
                /\ UNCHANGED <<cal, idx, result, exc, clock, main, files>>

\* line 181 with entries left: create_events is called (line 182) and runs
\* its lines 135-147
create_events_begin(c) ==
    /\ pc[c] = "for_entry"
    /\ idx[c] <= Len(args[c].schedule)
    /\ LET entry == Entry(c)
           e == BeginError(entry, args[c].timezone_str, args[c].default_start_time)
       IN  IF e # "" THEN Raise(c, e)
           ELSE /\ events' = [events EXCEPT ![c] = <<>>]
                /\ current_start' = [current_start EXCEPT ![c] =
                       Localize(entry.date,
                                StartTimeStr(entry, args[c].default_start_time),
                                args[c].timezone_str)]
                /\ i' = [i EXCEPT ![c] = 1]
                /\ pc' = [pc EXCEPT ![c] = "for_task"]
                /\ UNCHANGED <<args, cal, idx, result, exc, clock, main, files>>

\* the loop appending to one events list that all calls share
create_events_task_SharedEvents(c) ==
    /\ pc[c] = "for_task"
    /\ LET entry == Entry(c)
       IN  IF "tasks" \notin DOMAIN entry THEN Raise(c, "KeyError")
           ELSE /\ i[c] <= Len(entry.tasks)
                /\ LET e == TaskError(entry, entry.tasks[i[c]])
                   IN  IF e # "" THEN Raise(c, e)
                       ELSE LET event == MakeEvent(entry, i[c], current_start[c],
                                                   args[c].timezone_str, clock)
                            IN  /\ events' = [d \in Calls |->
                                                 IF d = c \/ pc[d] = "for_task"
                                                 THEN Append(events[d], event)
                                                 ELSE events[d]]
                                /\ current_start' = [current_start EXCEPT ![c] =
                                       NextStart(event.dtend, args[c].buffer_hours)]
                                /\ i' = [i EXCEPT ![c] = @ + 1]
                                /\ UNCHANGED <<args, pc, cal, idx, result, exc, clock,
                                               main, files>>

\* lines 149-168: one pass of the loop over entry['tasks']
create_events_task(c) ==
    /\ pc[c] = "for_task"
    /\ LET entry == Entry(c)
       IN  IF "tasks" \notin DOMAIN entry THEN Raise(c, "KeyError")
           ELSE /\ i[c] <= Len(entry.tasks)
                /\ LET e == TaskError(entry, entry.tasks[i[c]])
                   IN  IF e # "" THEN Raise(c, e)
                       ELSE LET event == MakeEvent(entry, i[c], current_start[c],
                                                   args[c].timezone_str, clock)
                            IN  /\ events' = [events EXCEPT ![c] = Append(@, event)]
                                /\ current_start' = [current_start EXCEPT ![c] =
                                       NextStart(event.dtend, args[c].buffer_hours)]
                                /\ i' = [i EXCEPT ![c] = @ + 1]
                                /\ UNCHANGED <<args, pc, cal, idx, result, exc, clock, main, files>>

\* line 170: the loop over the tasks is over, create_events returns events
create_events_return(c) ==
    /\ pc[c] = "for_task"
    /\ "tasks" \in DOMAIN Entry(c)
    /\ i[c] > Len(Entry(c).tasks)
    /\ pc' = [pc EXCEPT ![c] = "add_events"]
    /\ UNCHANGED <<args, cal, idx, events, current_start, i, result, exc, clock, main, files>>

\* cal replaced by the returned events instead of extended with them
create_calendar_add_Overwrite(c) ==
    /\ pc[c] = "add_events"
    /\ cal' = [cal EXCEPT ![c] = events[c]]
    /\ idx' = [idx EXCEPT ![c] = @ + 1]
    /\ pc' = [pc EXCEPT ![c] = "for_entry"]
    /\ UNCHANGED <<args, events, current_start, i, result, exc, clock, main, files>>

\* lines 183-184: create_calendar adds each returned event to cal, in order
create_calendar_add(c) ==
    /\ pc[c] = "add_events"
    /\ cal' = [cal EXCEPT ![c] = @ \o events[c]]
    /\ idx' = [idx EXCEPT ![c] = @ + 1]
    /\ pc' = [pc EXCEPT ![c] = "for_entry"]
    /\ UNCHANGED <<args, events, current_start, i, result, exc, clock, main, files>>

\* line 186: the loop over the schedule is over, create_calendar returns cal
create_calendar_return(c) ==
    /\ pc[c] = "for_entry"
    /\ idx[c] > Len(args[c].schedule)
    /\ result' = [result EXCEPT ![c] = [returned |-> TRUE, components |-> cal[c]]]
    /\ pc' = [pc EXCEPT ![c] = "returned"]
    /\ UNCHANGED <<args, cal, idx, events, current_start, i, exc, clock, main, files>>

\* time passes while a call runs
Tick ==
    /\ clock < MaxClock
    /\ \E c \in Calls : pc[c] \notin {"idle", "returned", "raised"}
    /\ clock' = clock + 1
    /\ UNCHANGED <<args, pc, cal, idx, events, current_start, i, result, exc,
                   main, files>>

---------------------------------------------------------------------------
(* main and load_schedule *)

\* the call of create_calendar that main makes
MainCall == 1

\* load_schedule(filename): [] when the file does not exist (lines 99-101) or
\* does not hold JSON (lines 107-109), else what json.load gives
load_schedule(file) ==
    IF file.kind = "missing" THEN <<>>
    ELSE IF file.kind = "invalid" THEN <<>>
    ELSE file.value

\* an output file: not there, there from before, opened (created or
\* truncated), or holding a written calendar
File(state, components) == [state |-> state, components |-> components]

\* line 200: schedule = load_schedule(args.input)
main_load ==
    /\ main.pc = "start"
    /\ main' = [main EXCEPT !.pc = "loaded", !.schedule = load_schedule(files.input)]
    /\ UNCHANGED <<args, pc, cal, idx, events, current_start, i, result, exc,
                   clock, files>>

\* an empty schedule written out as an empty calendar instead of returning
main_empty_WritesFile ==
    /\ main.pc = "loaded"
    /\ main.schedule = <<>>
    /\ files' = [files EXCEPT !.output = File("written", <<>>)]
    /\ main' = [main EXCEPT !.pc = "done"]
    /\ UNCHANGED <<args, pc, cal, idx, events, current_start, i, result, exc, clock>>

\* lines 201-202: if not schedule: return
main_empty ==
    /\ main.pc = "loaded"
    /\ main.schedule = <<>>
    /\ main' = [main EXCEPT !.pc = "done"]
    /\ UNCHANGED <<args, pc, cal, idx, events, current_start, i, result, exc,
                   clock, files>>

\* the output file opened before the schedule is compiled
main_call_OpenFirst ==
    /\ main.pc = "loaded"
    /\ main.schedule # <<>>
    /\ pc[MainCall] = "idle"
    /\ args' = [args EXCEPT ![MainCall] =
                   [schedule           |-> main.schedule,
                    timezone_str       |-> main.args.timezone,
                    default_start_time |-> main.args.start_time,
                    buffer_hours       |-> main.args.buffer_hours]]
    /\ pc' = [pc EXCEPT ![MainCall] = "called"]
    /\ files' = [files EXCEPT !.output = File("opened", <<>>)]
    /\ main' = [main EXCEPT !.pc = "compiling"]
    /\ UNCHANGED <<cal, idx, events, current_start, i, result, exc, clock>>

\* lines 204-209: cal = create_calendar(schedule, args.timezone,
\* args.start_time, args.buffer_hours)
main_call ==
    /\ main.pc = "loaded"
    /\ main.schedule # <<>>
    /\ pc[MainCall] = "idle"
    /\ args' = [args EXCEPT ![MainCall] =
                   [schedule           |-> main.schedule,
                    timezone_str       |-> main.args.timezone,
                    default_start_time |-> main.args.start_time,
                    buffer_hours       |-> main.args.buffer_hours]]
    /\ pc' = [pc EXCEPT ![MainCall] = "called"]
    /\ main' = [main EXCEPT !.pc = "compiling"]
    /\ UNCHANGED <<cal, idx, events, current_start, i, result, exc, clock, files>>

\* an exception left create_calendar: it leaves main too, at line 204
main_abort ==
    /\ main.pc = "compiling"
    /\ pc[MainCall] = "raised"
    /\ main' = [main EXCEPT !.pc = "aborted"]
    /\ UNCHANGED <<args, pc, cal, idx, events, current_start, i, result, exc,
                   clock, files>>

\* line 212: open(args.output, 'wb') creates or truncates the output file
main_open ==
    /\ main.pc = "compiling"
    /\ pc[MainCall] = "returned"
    /\ files' = [files EXCEPT !.output = File("opened", <<>>)]
    /\ main' = [main EXCEPT !.pc = "opened"]
    /\ UNCHANGED <<args, pc, cal, idx, events, current_start, i, result, exc, clock>>

\* line 213: f.write(cal.to_ical()), and the file is closed
main_write ==
    /\ main.pc = "opened"
    /\ files' = [files EXCEPT !.output = File("written", result[MainCall].components)]
    /\ main' = [main EXCEPT !.pc = "written"]
    /\ UNCHANGED <<args, pc, cal, idx, events, current_start, i, result, exc, clock>>

\* lines 214-217: the export is logged and the file revealed; main returns
main_reveal ==
    /\ main.pc = "written"
    /\ main' = [main EXCEPT !.pc = "done"]
    /\ UNCHANGED <<args, pc, cal, idx, events, current_start, i, result, exc,
                   clock, files>>

---------------------------------------------------------------------------
(* The inputs *)

\* DEFAULT_TASK_BUFFER_HOURS = 0.5
DEFAULT_TASK_BUFFER_HOURS == Q(1, 2)

T(h, t) == [hours |-> h, title |-> t]
E(d, p, ts) == [date |-> d, phase |-> p, tasks |-> ts]
ES(d, p, st, ts) == [date |-> d, phase |-> p, start_time |-> st, tasks |-> ts]

Eleven == <<"1", "1", ":", "0", "0">>
Ten == <<"1", "0", ":", "0", "0">>

\* all sequences over S of length at most n
RECURSIVE SeqsUpTo(_, _)
SeqsUpTo(S, n) ==
    IF n = 0 THEN {<<>>}
    ELSE LET shorter == SeqsUpTo(S, n - 1)
         IN  shorter \cup {Append(q, x) : q \in {r \in shorter : Len(r) = n - 1}, x \in S}

Args(sch, tzs, dst, buf) ==
    [schedule |-> sch, timezone_str |-> tzs, default_start_time |-> dst,
     buffer_hours |-> buf]

\* task hours: whole, fractional, not a whole number of microseconds, zero,
\* negative
HoursVals == {Q(2, 1), Q(1, 2), Q(1, 7), Q(0, 1), Q(-1, 1)}
BufferVals == {Q(0, 1), DEFAULT_TASK_BUFFER_HOURS, Q(1, 7)}

\* one entry whose tasks' hours vary, under each buffer
TimedInputs ==
    {Args(<<ES("2024-04-01", "P1", Eleven, ts)>>, "UTC", None, buf) :
        ts \in SeqsUpTo({T(h, "A") : h \in HoursVals}, MaxTasks),
        buf \in BufferVals}

\* one entry with each start time, default start time, date and zone
StartVals == {None, <<>>, Eleven, <<"9", ":", "5">>, <<"2", "4", ":", "0", "0">>,
              <<"1", "1", "0", "0">>}
DefaultVals == {None, <<>>, Ten, <<"1", "O", ":", "0", "0">>}
TwoTasks == <<T(Q(2, 1), "A"), T(Q(1, 2), "B")>>

StartInputs ==
    {Args(<<e>>, tzs, dst, DEFAULT_TASK_BUFFER_HOURS) :
        e \in {ES(d, "P1", st, TwoTasks) :
                  d \in {"2024-04-01", "04/01/2024"}, st \in StartVals}
              \cup {E("2024-04-02", "P1", TwoTasks), [phase |-> "P1", tasks |-> TwoTasks],
                    [phase |-> "P1", start_time |-> Eleven, tasks |-> TwoTasks]},
        tzs \in {"UTC", "America/New_York", "Mars/Phobos"},
        dst \in DefaultVals}

\* entries create_events accepts
GoodEntries ==
    { ES("2024-04-01", "P1", Eleven, TwoTasks),
      E("2024-04-01", "P2", <<T(Q(1, 1), "B")>>),
      ES("2024-04-02", "P2", Eleven, <<T(Q(1, 2), "A")>>),
      E("2024-04-02", "P1", <<>>),
      ES("2024-04-01", "P1", Eleven,
         <<T(Q(1, 1), "A"), T(Q(1, 1), "B"), T(Q(1, 1), "A")>>) }

\* entries with a key missing or a value strptime rejects
BadEntries ==
    { [phase |-> "P1", tasks |-> TwoTasks],
      [date |-> "2024-04-01", tasks |-> TwoTasks],
      [date |-> "2024-04-01", tasks |-> <<>>],
      [date |-> "2024-04-01", phase |-> "P1"],
      E("2024-04-01", "P1", <<T(Q(2, 1), "A"), [hours |-> Q(1, 2)]>>),
      E("2024-04-01", "P1", <<T(Q(2, 1), "A"), [title |-> "B"]>>),
      E("2024-04-01", "P1", <<[title |-> "A"], T(Q(1, 2), "B")>>),
      ES("2024-04-01", "P1", <<"n", "o", "o", "n">>, TwoTasks) }

\* schedules of entries create_events accepts, with and without a default
GoodInputs ==
    {Args(sch, "UTC", dst, DEFAULT_TASK_BUFFER_HOURS) :
        sch \in SeqsUpTo(GoodEntries, MaxEntries), dst \in {None, Ten}}

\* schedules with one bad entry, after good entries and before a last one
BadInputs ==
    {Args(pre \o <<bad>> \o post, "UTC", None, DEFAULT_TASK_BUFFER_HOURS) :
        pre \in SeqsUpTo({ES("2024-04-01", "P1", Eleven, TwoTasks),
                          E("2024-04-02", "P2", <<>>)}, MaxEntries - 1),
        bad \in BadEntries,
        post \in {<<>>, <<E("2024-04-01", "P2", <<T(Q(1, 1), "B")>>)>>}}

\* start 11:00, tasks of 4, 2 and 3 hours, buffer 0.5
ScenarioInputs ==
    {Args(<<ES("2024-04-01", "P1", Eleven,
               <<T(Q(4, 1), "A"), T(Q(2, 1), "B"), T(Q(3, 1), "A")>>)>>,
          "UTC", None, DEFAULT_TASK_BUFFER_HOURS)}

Inputs == TimedInputs \cup StartInputs \cup GoodInputs \cup BadInputs
              \cup ScenarioInputs

IdleArgs == Args(<<>>, "UTC", None, DEFAULT_TASK_BUFFER_HOURS)

\* what parse_args gives main: args.timezone, args.start_time, args.buffer_hours
MainArgs(tzs, dst, buf) == [timezone |-> tzs, start_time |-> dst, buffer_hours |-> buf]

\* main is not running: create_calendar is called directly
NoMain == [pc |-> "none", args |-> MainArgs("UTC", None, DEFAULT_TASK_BUFFER_HOURS),
           schedule |-> <<>>]
NoFiles == [input |-> [kind |-> "missing", value |-> <<>>], output |-> File("absent", <<>>)]

\* input files: none, one that is no JSON, and JSON schedules
InputFiles ==
    {[kind |-> "missing", value |-> <<>>], [kind |-> "invalid", value |-> <<>>]}
      \cup {[kind |-> "json", value |-> sch] :
              sch \in {<<>>,
                       <<ES("2024-04-01", "P1", Eleven, TwoTasks)>>,
                       <<E("2024-04-02", "P1", <<>>)>>,
                       <<E("2024-04-01", "P2", <<T(Q(1, 1), "B")>>),
                         ES("2024-04-02", "P2", Eleven, <<T(Q(1, 2), "A")>>)>>,
                       <<ES("2024-04-01", "P1", Eleven, TwoTasks),
                         ES("2024-04-01", "P1", <<"n", "o", "o", "n">>, TwoTasks)>>,
                       <<ES("2024-04-01", "P1", Eleven, TwoTasks),
                         E("2024-04-01", "P1", <<T(Q(2, 1), "A"), [hours |-> Q(1, 2)]>>)>>}}

\* the arguments of two calls of create_calendar made side by side
PairInputs ==
    { Args(<<ES("2024-04-01", "P1", Eleven, TwoTasks)>>, "UTC", None,
           DEFAULT_TASK_BUFFER_HOURS),
      Args(<<E("2024-04-01", "P2", <<T(Q(1, 1), "B")>>),
             ES("2024-04-02", "P2", Eleven, <<T(Q(1, 7), "A")>>)>>,
           "America/New_York", Ten, Q(0, 1)),
      Args(<<ES("2024-04-01", "P1", Eleven, TwoTasks),
             E("2024-04-01", "P1", <<T(Q(2, 1), "A"), [hours |-> Q(1, 2)]>>)>>,
           "UTC", None, DEFAULT_TASK_BUFFER_HOURS),
      Args(<<>>, "UTC", None, DEFAULT_TASK_BUFFER_HOURS) }

---------------------------------------------------------------------------
(* The specification: one call of create_calendar on any of the inputs, or  *)
(* one run of main, or two calls of create_calendar side by side            *)

Locals ==
    /\ cal = [c \in Calls |-> <<>>]
    /\ idx = [c \in Calls |-> 0]
    /\ events = [c \in Calls |-> <<>>]
    /\ current_start = [c \in Calls |-> NoStart]
    /\ i = [c \in Calls |-> 0]
    /\ result = [c \in Calls |-> NoResult]
    /\ exc = [c \in Calls |-> ""]
    /\ clock = 0

InitCall ==
    /\ \E a \in Inputs : args = [c \in Calls |-> IF c = 1 THEN a ELSE IdleArgs]
    /\ pc = [c \in Calls |-> IF c = 1 THEN "called" ELSE "idle"]
    /\ main = NoMain
    /\ files = NoFiles
    /\ Locals

InitMain ==
    /\ args = [c \in Calls |-> IdleArgs]
    /\ pc = [c \in Calls |-> "idle"]
    /\ \E tzs \in {"UTC", "Mars/Phobos"}, dst \in {None, Ten} :
          main = [pc |-> "start",
                  args |-> MainArgs(tzs, dst, DEFAULT_TASK_BUFFER_HOURS),
                  schedule |-> <<>>]
    /\ \E f \in InputFiles, o \in {File("absent", <<>>), File("old", <<>>)} :
          files = [input |-> f, output |-> o]
    /\ Locals

InitPair ==
    /\ \E a \in PairInputs, b \in PairInputs :
          args = [c \in Calls |-> IF c = 1 THEN a ELSE b]
    /\ pc = [c \in Calls |-> "called"]
    /\ main = NoMain
    /\ files = NoFiles
    /\ Locals

Init == InitCall \/ InitMain \/ InitPair

Next ==
    \/ \E c \in Calls : create_calendar_begin(c)
    \/ \E c \in Calls : create_events_begin(c)
    \/ \E c \in Calls : create_events_task(c)
    \/ \E c \in Calls : create_events_return(c)
    \/ \E c \in Calls : create_calendar_add(c)
    \/ \E c \in Calls : create_calendar_return(c)
    \/ Tick
    \/ main_load
    \/ main_empty
    \/ main_call
    \/ main_abort
    \/ main_open
    \/ main_write
    \/ main_reveal

Spec == Init /\ [][Next]_vars

---------------------------------------------------------------------------
(* Properties *)

\* call c is inside create_events for Entry(c), or has just left it: events[c]
\* holds the events built so far for that entry's tasks, in task order
InEntry(c) == pc[c] \in {"for_task", "add_events"}

\* a timedelta in whole seconds plus microseconds
TotalSeconds(td) == td.days * SecondsPerDay + td.seconds

\* C1: in every entry, after every pass of the loop, each event starts exactly
\* the buffer (as a timedelta) after the end of the event before it
C1_AdjacentGap ==
    \A c \in Calls : InEntry(c) =>
        \A k \in 1..(Len(events[c]) - 1) :
            dt_sub(events[c][k + 1].dtstart, events[c][k].dtend)
                = timedelta_hours(args[c].buffer_hours)

C1_Witness ==
    \E c \in Calls :
        /\ pc[c] = "for_task" /\ Len(events[c]) = 3
        /\ args[c].buffer_hours = Q(1, 2)
        /\ TotalSeconds(dt_sub(events[c][3].dtstart, events[c][2].dtend)) = 1800

\* whether timedelta td is h hours exactly
ExactlyHours(td, h) ==
    /\ TotalSeconds(td) = (h.num * SecondsPerHour) \div h.den
    /\ td.microseconds * h.den = ((h.num * SecondsPerHour) % h.den) * MicrosPerSecond

\* whether timedelta td is within half a microsecond of h hours
NearestMicrosecond(td, h) ==
    LET whole == (h.num * SecondsPerHour) \div h.den
        rest  == (h.num * SecondsPerHour) % h.den
        more  == TotalSeconds(td) - whole
        over  == (more * MicrosPerSecond + td.microseconds) * h.den
                    - rest * MicrosPerSecond
    IN  /\ more \in {0, 1}
        /\ 2 * over <= h.den
        /\ -(2 * over) <= h.den

Positive(h) == h.num > 0

\* C2 as claimed: the event of every task of positive hours lasts exactly the
\* task's hours, fractional or not
C2_DurationExact ==
    \A c \in Calls : InEntry(c) =>
        \A k \in 1..Len(events[c]) :
            Positive(Entry(c).tasks[k].hours) =>
                ExactlyHours(dt_sub(events[c][k].dtend, events[c][k].dtstart),
                             Entry(c).tasks[k].hours)

\* C2 as amended: the event of every task of positive hours lasts the task's
\* hours to the nearest microsecond, so exactly the task's hours whenever they
\* are a whole number of microseconds, at any position and under any buffer
C2_DurationRounded ==
    \A c \in Calls : InEntry(c) =>
        \A k \in 1..Len(events[c]) :
            LET h  == Entry(c).tasks[k].hours
                td == dt_sub(events[c][k].dtend, events[c][k].dtstart)
            IN  Positive(h) =>
                  /\ NearestMicrosecond(td, h)
                  /\ (((h.num * SecondsPerHour) % h.den) * MicrosPerSecond) % h.den = 0
                        => ExactlyHours(td, h)

C2_Witness ==
    \E c \in Calls :
        /\ InEntry(c) /\ Len(events[c]) = 2
        /\ Entry(c).tasks[1].hours = Q(1, 2)
        /\ Entry(c).tasks[2].hours = Q(1, 7)
        /\ args[c].buffer_hours = Q(1, 7)
        /\ dt_sub(events[c][1].dtend, events[c][1].dtstart)
             = [days |-> 0, seconds |-> 1800, microseconds |-> 0]
        /\ dt_sub(events[c][2].dtend, events[c][2].dtstart)
             = [days |-> 0, seconds |-> 514, microseconds |-> 285714]

RECURSIVE TaskCount(_)
\* sum(len(e.tasks) for e in schedule)
TaskCount(schedule) ==
    IF schedule = <<>> THEN 0
    ELSE Len(Head(schedule).tasks) + TaskCount(Tail(schedule))

\* C3: the calendar create_calendar returns holds one event per task of the
\* schedule
C3_EventCount ==
    \A c \in Calls : pc[c] = "returned" =>
        Len(result[c].components) = TaskCount(args[c].schedule)

C3_Witness ==
    \E c \in Calls :
        /\ pc[c] = "returned" /\ Len(args[c].schedule) = 2
        /\ Len(args[c].schedule[1].tasks) = 3 /\ Len(args[c].schedule[2].tasks) = 2
        /\ Len(result[c].components) = 5


\* an entry has its own start time: the key is there and holds a time string
\* (JSON null and the empty string hold none)
HasStartTime(entry) ==
    "start_time" \in DOMAIN entry /\ entry.start_time \notin {None, <<>>}

\* the caller gave a default start time
HasDefault(c) == args[c].default_start_time \notin {None, <<>>}

\* the start time the precedence rule selects for entry in call c
EffectiveStart(c, entry) ==
    IF HasStartTime(entry) THEN entry.start_time
    ELSE IF HasDefault(c) THEN args[c].default_start_time
    ELSE <<"0", "9", ":", "0", "0">>

\* the datetime of hour hh, minute mm of date d in call c's zone
At(c, d, hh, mm) ==
    [ordinal |-> DateOrdinal[d], second |-> hh * SecondsPerHour + mm * 60,
     microsecond |-> 0, tz |-> args[c].timezone_str]

\* C4: the first event of an entry starts on the entry's date at the entry's
\* start_time if it has one, else at the caller's default, else at 09:00
C4_StartPrecedence ==
    \A c \in Calls : (InEntry(c) /\ Len(events[c]) >= 1) =>
        LET entry == Entry(c)
            first == events[c][1].dtstart
        IN  /\ first.ordinal = DateOrdinal[entry.date]
            /\ first.second = TimeSecond(EffectiveStart(c, entry))
            /\ first.microsecond = 0
            /\ (~HasStartTime(entry) /\ args[c].default_start_time = Ten)
                  => first = At(c, entry.date, 10, 0)
            /\ (~HasStartTime(entry) /\ ~HasDefault(c))
                  => first = At(c, entry.date, 9, 0)
            /\ (HasStartTime(entry) /\ entry.start_time = Eleven)
                  => first = At(c, entry.date, 11, 0)

C4_Witness ==
    \E c \in Calls :
        /\ InEntry(c) /\ Len(events[c]) >= 1
        /\ "start_time" \notin DOMAIN Entry(c)
        /\ args[c].default_start_time = Ten
        /\ events[c][1].dtstart = At(c, "2024-04-02", 10, 0)

\* the marker a description starts with
Marker(event) == event.description[1]

\* how many events of evs carry marker m
CountMarker(evs, m) == Cardinality({k \in 1..Len(evs) : Marker(evs[k]) = m})

\* C5: the description of the task at position 1 has the first-task marker,
\* that of the last of two or more tasks the last-task marker, every other
\* the middle-task marker; so a complete entry of n tasks has one first marker,
\* one last marker if n >= 2 and none if n = 1, and n - 2 middle markers
C5_Markers ==
    \A c \in Calls : InEntry(c) =>
        LET n == Len(Entry(c).tasks)
        IN  /\ \A k \in 1..Len(events[c]) :
                 Marker(events[c][k]) =
                    IF k = 1 THEN FIRST
                    ELSE IF k = n /\ n > 1 THEN LAST
                    ELSE MIDDLE
            /\ (pc[c] = "add_events" /\ n >= 1) =>
                 /\ CountMarker(events[c], FIRST) = 1
                 /\ CountMarker(events[c], LAST) = (IF n >= 2 THEN 1 ELSE 0)
                 /\ CountMarker(events[c], MIDDLE) = (IF n >= 2 THEN n - 2 ELSE 0)

\* a single-task entry after a three-task entry: first, middle, last, first
C5_Witness ==
    \E c \in Calls :
        /\ pc[c] = "add_events" /\ Len(Entry(c).tasks) = 1
        /\ Len(events[c]) = 1 /\ Marker(events[c][1]) = FIRST
        /\ Len(cal[c]) = 3
        /\ Marker(cal[c][1]) = FIRST
        /\ Marker(cal[c][2]) = MIDDLE
        /\ Marker(cal[c][3]) = LAST

\* C6: the k-th event of an entry has the summary "{phase}: {title}" of the
\* entry's phase and its k-th task's title
C6_Summary ==
    \A c \in Calls : InEntry(c) =>
        \A k \in 1..Len(events[c]) :
            events[c][k].summary = <<Entry(c).phase, ": ", Entry(c).tasks[k].title>>

C6_Witness ==
    \E c \in Calls :
        /\ InEntry(c) /\ Len(events[c]) = 3
        /\ events[c][1].summary = <<"P1", ": ", "A">>
        /\ events[c][2].summary = <<"P1", ": ", "B">>
        /\ events[c][3].summary = <<"P1", ": ", "A">>

RECURSIVE Offset(_, _)
\* the number of tasks of the entries before entry j of schedule
Offset(schedule, j) ==
    IF j <= 1 THEN 0 ELSE Offset(schedule, j - 1) + Len(schedule[j - 1].tasks)

\* C7: the returned calendar is the entries' events in entry order and, within
\* an entry, task order; and the first event of every entry starts at that
\* entry's own date and start time, whatever the entries before it were
C7_OrderAndIndependence ==
    \A c \in Calls : pc[c] = "returned" =>
        LET sch == args[c].schedule
        IN  /\ Len(result[c].components) = Offset(sch, Len(sch) + 1)
            /\ \A j \in 1..Len(sch) :
                 /\ \A k \in 1..Len(sch[j].tasks) :
                      result[c].components[Offset(sch, j) + k].summary
                          = <<sch[j].phase, ": ", sch[j].tasks[k].title>>
                 /\ Len(sch[j].tasks) >= 1 =>
                      LET first == result[c].components[Offset(sch, j) + 1].dtstart
                      IN  /\ first.ordinal = DateOrdinal[sch[j].date]
                          /\ first.second = TimeSecond(EffectiveStart(c, sch[j]))
                          /\ first.microsecond = 0

\* two entries of the same date and start time: the events of the second
\* overlap those of the first and both are in the calendar, in order
C7_Witness ==
    \E c \in Calls :
        /\ pc[c] = "returned" /\ Len(args[c].schedule) = 2
        /\ Len(result[c].components) = 5
        /\ result[c].components[1].summary = <<"P1", ": ", "A">>
        /\ result[c].components[2].summary = <<"P1", ": ", "B">>
        /\ result[c].components[5].summary = <<"P1", ": ", "A">>
        /\ result[c].components[1].dtstart = At(c, "2024-04-01", 11, 0)
        /\ result[c].components[2].dtstart = At(c, "2024-04-01", 13, 30)
        /\ result[c].components[3].dtstart = At(c, "2024-04-01", 11, 0)
        /\ dt_lt(result[c].components[3].dtstart, result[c].components[2].dtend)

\* the entries of call c that create_events has returned events for
Expanded(c) ==
    {j \in 1..Len(args[c].schedule) :
        \/ j < idx[c]
        \/ j = idx[c] /\ pc[c] = "add_events"}

\* C8 as claimed: create_events returns no event list for an entry whose task
\* list is empty (it raises), so no calendar is returned for a schedule with
\* such an entry
C8_EmptyTasksRejected ==
    \A c \in Calls :
        /\ \A j \in Expanded(c) : args[c].schedule[j].tasks # <<>>
        /\ pc[c] = "returned" =>
             \A j \in 1..Len(args[c].schedule) : args[c].schedule[j].tasks # <<>>

\* every event call c has built: those of the entry in progress, those in cal
\* and those of the returned calendar
EventsOf(c) ==
    {events[c][k] : k \in 1..Len(events[c])}
        \cup {cal[c][k] : k \in 1..Len(cal[c])}
        \cup {result[c].components[k] : k \in 1..Len(result[c].components)}

\* C9 as claimed: every event ends after it starts
C9_EndAfterStart ==
    \A c \in Calls : \A ev \in EventsOf(c) : dt_lt(ev.dtstart, ev.dtend)

\* an entry create_events raises on: no date, no task list, a task without
\* title or hours, or no phase for a task to be summarised with
Fails(entry) ==
    \/ "date" \notin DOMAIN entry
    \/ "tasks" \notin DOMAIN entry
    \/ /\ "tasks" \in DOMAIN entry
       /\ \E k \in 1..Len(entry.tasks) :
             \/ "phase" \notin DOMAIN entry
             \/ "title" \notin DOMAIN entry.tasks[k]
             \/ "hours" \notin DOMAIN entry.tasks[k]

\* C10: a call that an exception left returned no calendar, however many
\* entries it had compiled; a calendar is returned only for a schedule none of
\* whose entries fails; and the event list create_events returns for an entry
\* is never shorter than the entry's task list
C10_AllOrNothing ==
    \A c \in Calls :
        /\ pc[c] = "raised" => (result[c] = NoResult /\ exc[c] # "")
        /\ result[c] # NoResult =>
             /\ pc[c] = "returned" /\ exc[c] = ""
             /\ \A j \in 1..Len(args[c].schedule) : ~Fails(args[c].schedule[j])
        /\ (\E j \in 1..Len(args[c].schedule) : Fails(args[c].schedule[j]))
             => pc[c] # "returned"
        /\ pc[c] = "add_events" => Len(events[c]) = Len(Entry(c).tasks)

\* the second entry failed at its second task, after the first entry's two
\* events were in cal and one event of the second was built: nothing returned
C10_Witness ==
    \E c \in Calls :
        /\ pc[c] = "raised" /\ exc[c] = "KeyError"
        /\ idx[c] = 2 /\ Len(cal[c]) = 2
        /\ Len(events[c]) = 1 /\ Len(Entry(c).tasks) = 2
        /\ result[c] = NoResult


\* the output file is as it was before main ran
Untouched(file) == file.state \in {"absent", "old"}

\* C11: main opens and writes the output file only once create_calendar has
\* returned the calendar of the whole schedule; when an exception leaves
\* create_calendar the output file is neither created nor truncated
C11_WriteAfterCompile ==
    /\ ~Untouched(files.output) =>
          /\ pc[MainCall] = "returned" /\ result[MainCall].returned
          /\ exc[MainCall] = ""
          /\ main.pc \in {"opened", "written", "done"}
          /\ \A j \in 1..Len(main.schedule) : ~Fails(main.schedule[j])
    /\ files.output.state = "written" =>
          files.output.components = result[MainCall].components
    /\ (pc[MainCall] = "raised" \/ main.pc = "aborted") => Untouched(files.output)

\* the second entry failed after the first was compiled: main is left by the
\* exception and the file that was there is still there
C11_Witness ==
    /\ main.pc = "aborted" /\ exc[MainCall] = "KeyError"
    /\ idx[MainCall] = 2 /\ Len(cal[MainCall]) = 2 /\ Len(events[MainCall]) = 1
    /\ files.output = File("old", <<>>)

\* C12: load_schedule gives an empty schedule, and raises nothing, for a
\* missing file and for a file that is no JSON; create_calendar returns a
\* calendar without events for an empty schedule; and for an empty schedule
\* main returns without calling create_calendar and without touching the
\* output file, where a failing schedule has an exception leave main
C12_EmptyIsNoOp ==
    /\ (main.pc \notin {"none", "start"} /\ files.input.kind \in {"missing", "invalid"})
          => (main.schedule = <<>> /\ main.pc \in {"loaded", "done"})
    /\ \A c \in Calls : (pc[c] = "returned" /\ args[c].schedule = <<>>)
          => (result[c].returned /\ result[c].components = <<>> /\ exc[c] = "")
    /\ (main.pc \notin {"none", "start"} /\ main.schedule = <<>>)
          => /\ main.pc \in {"loaded", "done"}
             /\ pc[MainCall] = "idle" /\ exc[MainCall] = ""
             /\ Untouched(files.output)
    /\ main.pc = "aborted" => (main.schedule # <<>> /\ exc[MainCall] # "")

C12_Witness ==
    /\ main.pc = "done" /\ files.input.kind = "invalid"
    /\ main.schedule = <<>>
    /\ pc[MainCall] = "idle"
    /\ files.output = File("old", <<>>)

\* the zone of arguments a cannot be resolved, or the start-time string used
\* for one of the entries cannot be parsed
BadConfig(a) ==
    \/ a.timezone_str \notin KnownZones
    \/ \E j \in 1..Len(a.schedule) :
          ~TimeOk(StartTimeStr(a.schedule[j], a.default_start_time))

\* C13 as claimed: with a zone that cannot be resolved or a start-time string
\* that cannot be parsed, no event is ever constructed for any entry
C13_ConfigErrorsFirst ==
    \A c \in Calls : (pc[c] # "idle" /\ BadConfig(args[c])) => EventsOf(c) = {}


\* an event without its creation time
Stripped(ev) == [summary |-> ev.summary, description |-> ev.description,
                 dtstart |-> ev.dtstart, dtend |-> ev.dtend]

StrippedAll(evs) == [k \in 1..Len(evs) |-> Stripped(evs[k])]

Finished(c) == pc[c] \in {"returned", "raised"}

\* C14: two calls of create_calendar with the same arguments end the same way
\* and return the same events, position by position, in summary, description,
\* start and end; only the stamps may differ
C14_Deterministic ==
    \A c \in Calls, d \in Calls :
        (args[c] = args[d] /\ Finished(c) /\ Finished(d)) =>
            /\ pc[c] = pc[d] /\ exc[c] = exc[d]
            /\ StrippedAll(result[c].components) = StrippedAll(result[d].components)

\* two calls with the same arguments returned the same events with other stamps
C14_Witness ==
    /\ args[1] = args[2]
    /\ pc[1] = "returned" /\ pc[2] = "returned"
    /\ Len(result[1].components) = 2
    /\ result[1].components[1].dtstamp # result[2].components[1].dtstamp
    /\ result[1].components[2].dtstamp # result[2].components[2].dtstamp

\* whether create_calendar, run alone on arguments a, raises
AloneRaises(a) ==
    \E j \in 1..Len(a.schedule) :
        \/ BeginError(a.schedule[j], a.timezone_str, a.default_start_time) # ""
        \/ "tasks" \notin DOMAIN a.schedule[j]
        \/ \E k \in 1..Len(a.schedule[j].tasks) :
              TaskError(a.schedule[j], a.schedule[j].tasks[k]) # ""

RECURSIVE AloneTasks(_, _, _, _)
\* the events create_events, run alone, builds for the tasks k.. of entry
\* when the k-th starts at start
AloneTasks(a, entry, k, start) ==
    IF k > Len(entry.tasks) THEN <<>>
    ELSE LET ev == Stripped(MakeEvent(entry, k, start, a.timezone_str, 0))
         IN  <<ev>> \o AloneTasks(a, entry, k + 1, NextStart(ev.dtend, a.buffer_hours))

RECURSIVE AloneEvents(_, _)
\* the events create_calendar, run alone on a, returns for the entries j..
AloneEvents(a, j) ==
    IF j > Len(a.schedule) THEN <<>>
    ELSE LET entry == a.schedule[j]
             base == Localize(entry.date, StartTimeStr(entry, a.default_start_time),
                              a.timezone_str)
         IN  AloneTasks(a, entry, 1, base) \o AloneEvents(a, j + 1)

\* C15: every call of create_calendar, whether it runs alone or interleaved
\* with another call on other arguments, ends as it does alone: it raises
\* exactly when it raises alone and otherwise returns the events it returns
\* alone
C15_Reentrant ==
    \A c \in Calls :
        /\ pc[c] = "raised" => AloneRaises(args[c])
        /\ pc[c] = "returned" =>
              /\ ~AloneRaises(args[c])
              /\ StrippedAll(result[c].components) = AloneEvents(args[c], 1)

\* two calls on different arguments, each with an event made before and an
\* event made after the clock ticked (so neither ran wholly before the other),
\* have both returned
C15_Witness ==
    /\ args[1] # args[2]
    /\ pc[1] = "returned" /\ pc[2] = "returned"
    /\ Len(result[1].components) = 2 /\ Len(result[2].components) = 2
    /\ result[1].components[1].dtstamp.instant = 0
    /\ result[1].components[2].dtstamp.instant = 1
    /\ result[2].components[1].dtstamp.instant = 0
    /\ result[2].components[2].dtstamp.instant = 1

\* C16: no step of create_calendar or create_events changes the arguments of
\* a call that has been made, nor the schedule main loaded: every entry and
\* every task stays as it was, in calls that return and in calls that raise
C16_InputsUnchanged ==
    [][ /\ \A c \in Calls : pc[c] # "idle" => args'[c] = args[c]
        /\ main.pc \notin {"none", "start"} => main'.schedule = main.schedule
      ]_vars

\* an entry without start_time was compiled from the 09:00 fallback and still
\* has no start_time
C16_Witness ==
    \E c \in Calls :
        /\ pc[c] = "returned" /\ Len(args[c].schedule) = 1
        /\ DOMAIN args[c].schedule[1] = {"date", "phase", "tasks"}
        /\ ~HasDefault(c)
        /\ Len(result[c].components) >= 1
        /\ result[c].components[1].dtstart = At(c, "2024-04-02", 9, 0)

\* timedelta + timedelta
td_add(a, b) ==
    LET us   == a.microseconds + b.microseconds
        secs == a.seconds + b.seconds + (us \div MicrosPerSecond)
    IN  [days         |-> a.days + b.days + (secs \div SecondsPerDay),
         seconds      |-> secs % SecondsPerDay,
         microseconds |-> us % MicrosPerSecond]

RECURSIVE SumHours(_, _)
\* the hours of tasks 1..k, as a timedelta
SumHours(tasks, k) ==
    IF k = 0 THEN [days |-> 0, seconds |-> 0, microseconds |-> 0]
    ELSE td_add(SumHours(tasks, k - 1), timedelta_hours(tasks[k].hours))

RECURSIVE Buffers(_, _)
\* n buffers of h hours, as a timedelta
Buffers(h, n) ==
    IF n = 0 THEN [days |-> 0, seconds |-> 0, microseconds |-> 0]
    ELSE td_add(Buffers(h, n - 1), timedelta_hours(h))

\* the base timestamp of entry in call c
Base(c, entry) ==
    [ordinal |-> DateOrdinal[entry.date],
     second |-> TimeSecond(EffectiveStart(c, entry)),
     microsecond |-> 0, tz |-> args[c].timezone_str]

\* C17: the k-th event of an entry starts at the base timestamp plus the hours
\* of tasks 1..k-1 plus k-1 buffers and ends the k-th task's hours later, so
\* the last of n events ends at the base plus all hours plus n-1 buffers and a
\* single event spans its task's hours alone
C17_ClosedForm ==
    \A c \in Calls : InEntry(c) =>
        LET tasks == Entry(c).tasks
            B == Base(c, Entry(c))
        IN  \A k \in 1..Len(events[c]) :
              /\ events[c][k].dtstart =
                    dt_add(dt_add(B, SumHours(tasks, k - 1)),
                           Buffers(args[c].buffer_hours, k - 1))
              /\ events[c][k].dtend =
                    dt_add(dt_add(B, SumHours(tasks, k)),
                           Buffers(args[c].buffer_hours, k - 1))

\* start 11:00, tasks of 4, 2 and 3 hours, buffer 0.5: starts 11:00, 15:30,
\* 18:00 and ends 15:00, 17:30, 21:00
C17_Witness ==
    \E c \in Calls :
        /\ pc[c] = "add_events" /\ Len(events[c]) = 3
        /\ args[c].buffer_hours = Q(1, 2)
        /\ events[c][1].dtstart = At(c, "2024-04-01", 11, 0)
        /\ events[c][1].dtend = At(c, "2024-04-01", 15, 0)
        /\ events[c][2].dtstart = At(c, "2024-04-01", 15, 30)
        /\ events[c][2].dtend = At(c, "2024-04-01", 17, 30)
        /\ events[c][3].dtstart = At(c, "2024-04-01", 18, 0)
        /\ events[c][3].dtend = At(c, "2024-04-01", 21, 0)

=============================================================================
